---- MODULE Spec2Model ----
(***************************************************************************)
(* ReleasesService of go-gitlab (releases.go): the five operations         *)
(* ListReleases, GetRelease, CreateRelease, UpdateRelease, DeleteRelease.  *)
(*                                                                         *)
(* A Go string is a sequence of one-character strings where its characters *)
(* matter (project references, tags, URL paths), and an atomic word where  *)
(* they do not (names, descriptions).  A serialized JSON body is the       *)
(* sequence of its lexical tokens; a quoted string is the three tokens     *)
(* quote, word, quote.                                                     *)
(***************************************************************************)
EXTENDS Integers, Sequences, FiniteSets, TLC

VARIABLES pc, args, handed, built, nNewRequest, nDo, wire, ret

vars == <<pc, args, handed, built, nNewRequest, nDo, wire, ret>>

----------------------------------------------------------------------------
(* Bounds of the model *)

MaxPidLen == 2
MaxTagLen == 2
MaxLinks == 2
MaxReleases == 2
NumConc == 2

----------------------------------------------------------------------------
(* Generic helpers *)

SeqsUpTo(S, n) == UNION {[1..k -> S] : k \in 0..n}

Range(s) == {s[k] : k \in 1..Len(s)}

Contains(s, tok) == \E k \in 1..Len(s) : s[k] = tok

RECURSIVE ConcatAll(_)
ConcatAll(ss) == IF ss = <<>> THEN <<>> ELSE Head(ss) \o ConcatAll(Tail(ss))

Nil == "nil"

----------------------------------------------------------------------------
(* strconv.Itoa as parseID applies it to an int project id *)

Digit(d) == <<"0", "1", "2", "3", "4", "5", "6", "7", "8", "9">>[d + 1]

RECURSIVE Itoa(_)
Itoa(n) ==
    IF n < 0 THEN <<"-">> \o Itoa(0 - n)
    ELSE IF n < 10 THEN <<Digit(n)>>
    ELSE Itoa(n \div 10) \o <<Digit(n % 10)>>

(* parseID(pid): the set of (project, err) pairs the parser may return.    *)
(* An int becomes its decimal form, a string is returned as it is, any     *)
(* other type is an error.  The empty string is documented as rejected;    *)
(* both verdicts on it are kept.                                           *)
parseID(pid) ==
    CASE pid.kind = "int" -> {[project |-> Itoa(pid.n), err |-> Nil]}
      [] pid.kind = "string" /\ pid.s # <<>> -> {[project |-> pid.s, err |-> Nil]}
      [] pid.kind = "string" /\ pid.s = <<>> ->
            {[project |-> pid.s, err |-> Nil], [project |-> <<>>, err |-> "invalid ID"]}
      [] OTHER -> {[project |-> <<>>, err |-> "invalid ID type"]}

----------------------------------------------------------------------------
(* net/url QueryEscape, the escaping releases.go applies to the project *)

Unreserved ==
    {"a", "b", "g", "h", "v", "0", "1", "2", "3", "4", "5", "6", "7", "8", "9",
     "-", "_", ".", "~"}

Hex(c) ==
    CASE c = "/" -> <<"2", "F">>
      [] c = "+" -> <<"2", "B">>
      [] c = "%" -> <<"2", "5">>
      [] c = " " -> <<"2", "0">>
      [] c = "?" -> <<"3", "F">>

QueryEscapeChar(c) ==
    IF c \in Unreserved THEN <<c>>
    ELSE IF c = " " THEN <<"+">>
    ELSE <<"%">> \o Hex(c)

QueryEscape(s) == ConcatAll([k \in 1..Len(s) |-> QueryEscapeChar(s[k])])

----------------------------------------------------------------------------
(* encoding/json applied to the option structs, field by field as their    *)
(* json tags direct                                                        *)

Q == "\""

JStr(w) == IF w = "" THEN <<Q, Q>> ELSE <<Q, w, Q>>

JKey(k) == <<Q, k, Q, ":">>

RECURSIVE JoinComma(_)
JoinComma(ss) ==
    IF ss = <<>> THEN <<>>
    ELSE IF Len(ss) = 1 THEN Head(ss)
    ELSE Head(ss) \o <<",">> \o JoinComma(Tail(ss))

(* Variant: the link's URL under the key url *)
MarshalReleaseAssetLink_UrlKey(l) ==
    <<"{">> \o JKey("name") \o JStr(l.Name) \o <<",">>
            \o JKey("url") \o JStr(l.URL) \o <<"}">>

(* type ReleaseAssetLink: Name `json:"name"`, URL `json:"ref"` *)
MarshalReleaseAssetLink(l) ==
    <<"{">> \o JKey("name") \o JStr(l.Name) \o <<",">>
            \o JKey("ref") \o JStr(l.URL) \o <<"}">>

(* type ReleaseAssets: Links `json:"links"`; a nil slice is null *)
MarshalReleaseAssets(a) ==
    <<"{">> \o JKey("links")
            \o (IF a.linksNil THEN <<"null">>
                ELSE <<"[">>
                     \o JoinComma([k \in 1..Len(a.Links) |->
                                      MarshalReleaseAssetLink(a.Links[k])])
                     \o <<"]">>)
            \o <<"}">>

(* Variant: assets without omitempty *)
MarshalCreateReleaseOptions_NoOmitEmpty(o) ==
    <<"{">> \o JKey("name") \o JStr(o.Name) \o <<",">>
            \o JKey("tag_name") \o JStr(o.TagName) \o <<",">>
            \o JKey("description") \o JStr(o.Description)
            \o (IF o.Ref = "" THEN <<>> ELSE <<",">> \o JKey("ref") \o JStr(o.Ref))
            \o <<",">> \o JKey("assets")
            \o (IF o.Assets.isNil THEN <<"null">> ELSE MarshalReleaseAssets(o.Assets))
            \o <<"}">>

(* type CreateReleaseOptions: ref and assets carry omitempty *)
MarshalCreateReleaseOptions(o) ==
    <<"{">> \o JKey("name") \o JStr(o.Name) \o <<",">>
            \o JKey("tag_name") \o JStr(o.TagName) \o <<",">>
            \o JKey("description") \o JStr(o.Description)
            \o (IF o.Ref = "" THEN <<>> ELSE <<",">> \o JKey("ref") \o JStr(o.Ref))
            \o (IF o.Assets.isNil THEN <<>>
                ELSE <<",">> \o JKey("assets") \o MarshalReleaseAssets(o.Assets))
            \o <<"}">>

(* type UpdateReleaseOptions *)
MarshalUpdateReleaseOptions(o) ==
    <<"{">> \o JKey("name") \o JStr(o.Name) \o <<",">>
            \o JKey("description") \o JStr(o.Description) \o <<"}">>

----------------------------------------------------------------------------
(* Values *)

NilAssets == [isNil |-> TRUE, linksNil |-> TRUE, Links |-> <<>>]

NoOpts ==
    [Page |-> 0, PerPage |-> 0, Name |-> "", TagName |-> "", Description |-> "",
     Ref |-> "", Assets |-> NilAssets]

NilPayload == [kind |-> Nil, val |-> NoOpts]

NilResult == [isNil |-> TRUE, rels |-> <<>>]

NoTag == <<>>

NotHanded == [called |-> FALSE, method |-> "", u |-> <<>>, opt |-> NilPayload]

NotBuilt == [ok |-> FALSE, hasBody |-> FALSE, body |-> <<>>, query |-> NilPayload]

NoWire ==
    [received |-> FALSE, items |-> <<>>, resp |-> Nil, err |-> Nil, r |-> NilResult]

NoRet == [returned |-> FALSE, result |-> NilResult, resp |-> Nil, err |-> Nil]

NoArgs == [op |-> "", pid |-> [kind |-> "", n |-> 0, s |-> <<>>], tag |-> NoTag,
           opt |-> NoOpts]

----------------------------------------------------------------------------
(* The request each operation hands to client.NewRequest *)

ListReleasesRequest(project, opt) ==
    [called |-> TRUE, method |-> "GET",
     u |-> <<"projects/">> \o QueryEscape(project) \o <<"/releases">>,
     opt |-> [kind |-> "ListReleasesOptions", val |-> opt]]

GetReleaseRequest(project, tag) ==
    [called |-> TRUE, method |-> "GET",
     u |-> <<"projects/">> \o QueryEscape(project) \o <<"/releases/">> \o tag,
     opt |-> NilPayload]

CreateReleaseRequest(project, opts) ==
    [called |-> TRUE, method |-> "POST",
     u |-> <<"projects/">> \o QueryEscape(project) \o <<"/releases">>,
     opt |-> [kind |-> "CreateReleaseOptions", val |-> opts]]

(* Variant: the update sent as a POST to the collection *)
UpdateReleaseRequest_Post(project, tag, opts) ==
    [called |-> TRUE, method |-> "POST",
     u |-> <<"projects/">> \o QueryEscape(project) \o <<"/releases">>,
     opt |-> [kind |-> "UpdateReleaseOptions", val |-> opts]]

UpdateReleaseRequest(project, tag, opts) ==
    [called |-> TRUE, method |-> "PUT",
     u |-> <<"projects/">> \o QueryEscape(project) \o <<"/releases/">> \o tag,
     opt |-> [kind |-> "UpdateReleaseOptions", val |-> opts]]

DeleteReleaseRequest(project, tag) ==
    [called |-> TRUE, method |-> "DELETE",
     u |-> <<"projects/">> \o QueryEscape(project) \o <<"/releases/">> \o tag,
     opt |-> NilPayload]

----------------------------------------------------------------------------
(* The collaborators: client.NewRequest and client.Do *)

Marshal(payload) ==
    CASE payload.kind = "CreateReleaseOptions" -> MarshalCreateReleaseOptions(payload.val)
      [] payload.kind = "UpdateReleaseOptions" -> MarshalUpdateReleaseOptions(payload.val)
      [] OTHER -> <<"null">>

(* NewRequest sends the options of a POST or PUT as the JSON body and the  *)
(* options of any other verb as the query string.                          *)
NewRequest(h) ==
    IF h.method \in {"POST", "PUT"}
    THEN [ok |-> TRUE, hasBody |-> TRUE, body |-> Marshal(h.opt), query |-> NilPayload]
    ELSE [ok |-> TRUE, hasBody |-> FALSE, body |-> <<>>, query |-> h.opt]

NewRequestErr == "request construction error"

----------------------------------------------------------------------------
(* What client.Do can answer: the JSON the server sent, the response       *)
(* metadata, the error, and the value left in r                            *)

JReleases ==
    {[tag_name |-> "v0.1", name |-> "Awesome app v0.1 alpha"],
     [tag_name |-> "v0.2", name |-> "Awesome app v0.2 beta"]}

Metas == {"response A", "response B"}

Errs == {"404 Not Found", "connection reset"}

DecodeRelease(j) == [TagName |-> j.tag_name, Name |-> j.name]

(* json decoding into r: a []*Release for ListReleases, a *Release (null   *)
(* leaves it nil) for the others                                           *)
Decode(op, items) ==
    IF op = "ListReleases"
    THEN [isNil |-> FALSE, rels |-> [k \in 1..Len(items) |-> DecodeRelease(items[k])]]
    ELSE IF items = <<>> THEN NilResult
    ELSE [isNil |-> FALSE, rels |-> <<DecodeRelease(items[1])>>]

ServerBodies(op) ==
    IF op = "ListReleases" THEN SeqsUpTo(JReleases, MaxReleases) ELSE SeqsUpTo(JReleases, 1)

(* what a failed Do may have left in r: nothing, or a decoded prefix *)
Partial(op, items) ==
    {NilResult} \cup {Decode(op, SubSeq(items, 1, k)) : k \in 0..Len(items)}

DoOutcomes(op) ==
    {[received |-> TRUE, items |-> b, resp |-> m, err |-> Nil, r |-> Decode(op, b)] :
        b \in ServerBodies(op), m \in Metas}
    \cup
    UNION {{[received |-> TRUE, items |-> b, resp |-> m, err |-> e, r |-> p] :
               m \in Metas \cup {Nil}, e \in Errs, p \in Partial(op, b)} :
           b \in ServerBodies(op)}

----------------------------------------------------------------------------
(* Arguments the callers pass *)

PidChars == {"g", "/", " ", "+"}

TagChars == {"v", "/", " "}

IntPid(n) == [kind |-> "int", n |-> n, s |-> <<>>]

StringPid(s) == [kind |-> "string", n |-> 0, s |-> s]

FloatPid == [kind |-> "float64", n |-> 0, s |-> <<>>]

StructPid == [kind |-> "struct", n |-> 0, s |-> <<>>]

Pids ==
    {IntPid(1), IntPid(42), FloatPid, StructPid}
    \cup {StringPid(s) : s \in SeqsUpTo(PidChars, MaxPidLen)}

Tags == SeqsUpTo(TagChars, MaxTagLen)

ListOpts ==
    {[NoOpts EXCEPT !.Page = pp[1], !.PerPage = pp[2]] : pp \in {<<0, 0>>, <<2, 20>>}}

AssetLinks == {[Name |-> "sldkf", URL |-> u] : u \in {"sldkfj", "url"}}

AssetsValues ==
    {NilAssets, [isNil |-> FALSE, linksNil |-> TRUE, Links |-> <<>>]}
    \cup {[isNil |-> FALSE, linksNil |-> FALSE, Links |-> l] :
             l \in SeqsUpTo(AssetLinks, MaxLinks)}

CreateOpts ==
    {[NoOpts EXCEPT !.Name = n, !.TagName = "v0.1", !.Description = "Description",
                    !.Ref = r, !.Assets = a] :
        n \in {"name", "assets"}, r \in {"", "master"}, a \in AssetsValues}

UpdateOpts ==
    {[NoOpts EXCEPT !.Name = "name", !.Description = d] : d \in {"", "Description"}}

----------------------------------------------------------------------------
(* The operations.  An operation runs to the point where client.Do blocks  *)
(* (Enter), and from the answer of client.Do to its return (Leave).        *)

TypeOK ==
    /\ pc \in [DOMAIN pc -> {"idle", "inflight", "done"}]
    /\ \A i \in DOMAIN pc : nNewRequest[i] \in 0..1 /\ nDo[i] \in 0..1

InitN(n) ==
    /\ pc = [i \in 1..n |-> "idle"]
    /\ args = [i \in 1..n |-> NoArgs]
    /\ handed = [i \in 1..n |-> NotHanded]
    /\ built = [i \in 1..n |-> NotBuilt]
    /\ nNewRequest = [i \in 1..n |-> 0]
    /\ nDo = [i \in 1..n |-> 0]
    /\ wire = [i \in 1..n |-> NoWire]
    /\ ret = [i \in 1..n |-> NoRet]

(* Variant: the error of parseID is not checked *)
Enter_IgnoresParseErr(i, a, p, h, nrOk) ==
    /\ pc[i] = "idle"
    /\ args' = [args EXCEPT ![i] = a]
    /\ wire' = wire
    /\ handed' = [handed EXCEPT ![i] = h]
    /\ nNewRequest' = [nNewRequest EXCEPT ![i] = @ + 1]
    /\ IF ~nrOk
       THEN /\ built' = built
            /\ nDo' = nDo
            /\ ret' = [ret EXCEPT ![i] = [returned |-> TRUE, result |-> NilResult,
                                          resp |-> Nil, err |-> NewRequestErr]]
            /\ pc' = [pc EXCEPT ![i] = "done"]
       ELSE /\ built' = [built EXCEPT ![i] = NewRequest(h)]
            /\ nDo' = [nDo EXCEPT ![i] = @ + 1]
            /\ ret' = ret
            /\ pc' = [pc EXCEPT ![i] = "inflight"]

(* project, err := parseID(pid); if err != nil { return nil, nil, err }    *)
(* req, err := s.client.NewRequest(...); if err != nil { return nil, nil,  *)
(* err }; then s.client.Do(req, &r) is called.                             *)
Enter(i, a, p, h, nrOk) ==
    /\ pc[i] = "idle"
    /\ args' = [args EXCEPT ![i] = a]
    /\ wire' = wire
    /\ IF p.err # Nil
       THEN /\ handed' = handed
            /\ built' = built
            /\ nNewRequest' = nNewRequest
            /\ nDo' = nDo
            /\ ret' = [ret EXCEPT ![i] = [returned |-> TRUE, result |-> NilResult,
                                          resp |-> Nil, err |-> p.err]]
            /\ pc' = [pc EXCEPT ![i] = "done"]
       ELSE /\ handed' = [handed EXCEPT ![i] = h]
            /\ nNewRequest' = [nNewRequest EXCEPT ![i] = @ + 1]
            /\ IF ~nrOk
               THEN /\ built' = built
                    /\ nDo' = nDo
                    /\ ret' = [ret EXCEPT ![i] = [returned |-> TRUE, result |-> NilResult,
                                                  resp |-> Nil, err |-> NewRequestErr]]
                    /\ pc' = [pc EXCEPT ![i] = "done"]
               ELSE /\ built' = [built EXCEPT ![i] = NewRequest(h)]
                    /\ nDo' = [nDo EXCEPT ![i] = @ + 1]
                    /\ ret' = ret
                    /\ pc' = [pc EXCEPT ![i] = "inflight"]

Reverse(s) == [k \in 1..Len(s) |-> s[Len(s) + 1 - k]]

(* The return of an operation, with each part of it as a parameter *)
LeaveWith(i, out, onErrResult, onErrResp, onOkResult) ==
    /\ pc[i] = "inflight"
    /\ wire' = [wire EXCEPT ![i] = out]
    /\ ret' = [ret EXCEPT ![i] =
                 IF out.err # Nil
                 THEN [returned |-> TRUE, result |-> onErrResult, resp |-> onErrResp,
                       err |-> out.err]
                 ELSE [returned |-> TRUE, result |-> onOkResult, resp |-> out.resp,
                       err |-> out.err]]
    /\ pc' = [pc EXCEPT ![i] = "done"]
    /\ UNCHANGED <<args, handed, built, nNewRequest, nDo>>

(* Variant: a failed round trip is tried once more *)
Leave_Retries(i, out) ==
    IF out.err # Nil /\ nDo[i] < 2
    THEN /\ pc[i] = "inflight"
         /\ nDo' = [nDo EXCEPT ![i] = @ + 1]
         /\ UNCHANGED <<pc, args, handed, built, nNewRequest, wire, ret>>
    ELSE LeaveWith(i, out, NilResult, out.resp, out.r)

(* Variant: return nil, nil, err *)
Leave_DropsResp(i, out) == LeaveWith(i, out, NilResult, Nil, out.r)

(* Variant: return r, resp, err whatever err is *)
Leave_KeepsPartial(i, out) == LeaveWith(i, out, out.r, out.resp, out.r)

(* Variant: the decoded records returned newest last *)
Leave_Reverses(i, out) ==
    LeaveWith(i, out, NilResult, out.resp, [out.r EXCEPT !.rels = Reverse(@)])

(* resp, err := s.client.Do(req, &r); if err != nil { return nil, resp,    *)
(* err }; return r, resp, err                                              *)
Leave(i, out) ==
    /\ pc[i] = "inflight"
    /\ wire' = [wire EXCEPT ![i] = out]
    /\ ret' = [ret EXCEPT ![i] =
                 IF out.err # Nil
                 THEN [returned |-> TRUE, result |-> NilResult, resp |-> out.resp,
                       err |-> out.err]
                 ELSE [returned |-> TRUE, result |-> out.r, resp |-> out.resp,
                       err |-> out.err]]
    /\ pc' = [pc EXCEPT ![i] = "done"]
    /\ UNCHANGED <<args, handed, built, nNewRequest, nDo>>

ListReleases(i, pid, opt) ==
    \E p \in parseID(pid), nrOk \in BOOLEAN :
        Enter(i, [op |-> "ListReleases", pid |-> pid, tag |-> NoTag, opt |-> opt],
              p, ListReleasesRequest(p.project, opt), nrOk)

(* Variant: the tag is kept in a field of the service between calls *)
GetRelease_SharedTag(i, pid, tag) ==
    \E p \in parseID(pid), nrOk \in BOOLEAN :
        LET others == {j \in DOMAIN pc : j # i /\ pc[j] = "inflight" /\ args[j].tag # NoTag}
            t == IF others = {} THEN tag ELSE args[CHOOSE j \in others : TRUE].tag
        IN  Enter(i, [op |-> "GetRelease", pid |-> pid, tag |-> tag, opt |-> NoOpts],
                  p, GetReleaseRequest(p.project, t), nrOk)

GetRelease(i, pid, tag) ==
    \E p \in parseID(pid), nrOk \in BOOLEAN :
        Enter(i, [op |-> "GetRelease", pid |-> pid, tag |-> tag, opt |-> NoOpts],
              p, GetReleaseRequest(p.project, tag), nrOk)

CreateRelease(i, pid, opts) ==
    \E p \in parseID(pid), nrOk \in BOOLEAN :
        Enter(i, [op |-> "CreateRelease", pid |-> pid, tag |-> NoTag, opt |-> opts],
              p, CreateReleaseRequest(p.project, opts), nrOk)

UpdateRelease(i, pid, tag, opts) ==
    \E p \in parseID(pid), nrOk \in BOOLEAN :
        Enter(i, [op |-> "UpdateRelease", pid |-> pid, tag |-> tag, opt |-> opts],
              p, UpdateReleaseRequest(p.project, tag, opts), nrOk)

DeleteRelease(i, pid, tag) ==
    \E p \in parseID(pid), nrOk \in BOOLEAN :
        Enter(i, [op |-> "DeleteRelease", pid |-> pid, tag |-> tag, opt |-> NoOpts],
              p, DeleteReleaseRequest(p.project, tag), nrOk)

(* The caller takes the returned values; the service keeps nothing of the  *)
(* call.                                                                   *)
Forget(i) ==
    /\ pc[i] = "done"
    /\ pc' = [pc EXCEPT ![i] = "idle"]
    /\ args' = [args EXCEPT ![i] = NoArgs]
    /\ handed' = [handed EXCEPT ![i] = NotHanded]
    /\ built' = [built EXCEPT ![i] = NotBuilt]
    /\ nNewRequest' = [nNewRequest EXCEPT ![i] = 0]
    /\ nDo' = [nDo EXCEPT ![i] = 0]
    /\ wire' = [wire EXCEPT ![i] = NoWire]
    /\ ret' = [ret EXCEPT ![i] = NoRet]

----------------------------------------------------------------------------
(* One caller at a time *)

Init == InitN(1)

Next ==
    \E i \in DOMAIN pc :
        \/ pc[i] = "idle" /\ \E pid \in Pids, opt \in ListOpts : ListReleases(i, pid, opt)
        \/ pc[i] = "idle" /\ \E pid \in Pids, tag \in Tags : GetRelease(i, pid, tag)
        \/ pc[i] = "idle" /\ \E pid \in Pids, opts \in CreateOpts : CreateRelease(i, pid, opts)
        \/ pc[i] = "idle" /\ \E pid \in Pids, tag \in Tags, opts \in UpdateOpts :
                                UpdateRelease(i, pid, tag, opts)
        \/ pc[i] = "idle" /\ \E pid \in Pids, tag \in Tags : DeleteRelease(i, pid, tag)
        \/ pc[i] = "inflight" /\ \E out \in DoOutcomes(args[i].op) : Leave(i, out)
        \/ Forget(i)

Spec == Init /\ [][Next]_vars

(* Concurrent callers on one service *)

ConcPids == {IntPid(1), StringPid(<<"g">>)}

ConcTags == {<<"v">>, <<"v", "/">>}

ConcCreateOpts ==
    {[NoOpts EXCEPT !.Name = "name", !.TagName = "v0.1", !.Description = "Description",
                    !.Assets = [isNil |-> FALSE, linksNil |-> FALSE,
                                Links |-> <<[Name |-> "sldkf", URL |-> "sldkfj"]>>]]}

ConcUpdateOpts == {[NoOpts EXCEPT !.Name = "name", !.Description = "Description"]}

(* one answer that succeeds and one that fails after decoding the body *)
ConcDoOutcomes(op) ==
    {[received |-> TRUE,
      items |-> <<[tag_name |-> "v0.1", name |-> "Awesome app v0.1 alpha"]>>,
      resp |-> "response A", err |-> e,
      r |-> Decode(op, <<[tag_name |-> "v0.1", name |-> "Awesome app v0.1 alpha"]>>)] :
        e \in {Nil, "404 Not Found"}}

ConcInit == InitN(NumConc)

ConcNext ==
    \E i \in DOMAIN pc :
        \/ pc[i] = "idle" /\ \E pid \in ConcPids : ListReleases(i, pid, NoOpts)
        \/ pc[i] = "idle" /\ \E pid \in ConcPids, tag \in ConcTags : GetRelease(i, pid, tag)
        \/ pc[i] = "idle" /\ \E pid \in ConcPids, opts \in ConcCreateOpts :
                                CreateRelease(i, pid, opts)
        \/ pc[i] = "idle" /\ \E pid \in ConcPids, tag \in ConcTags, opts \in ConcUpdateOpts :
                                UpdateRelease(i, pid, tag, opts)
        \/ pc[i] = "idle" /\ \E pid \in ConcPids, tag \in ConcTags : DeleteRelease(i, pid, tag)
        \/ pc[i] = "inflight" /\ \E out \in ConcDoOutcomes(args[i].op) : Leave(i, out)
        \/ Forget(i)

ConcSpec == ConcInit /\ [][ConcNext]_vars

----------------------------------------------------------------------------
(* Properties *)

Slots == DOMAIN pc

Rejected(pid) == \A p \in parseID(pid) : p.err # Nil

ParseErrs == {"invalid ID", "invalid ID type"}

(* the normalized project reference of an accepted pid *)
Normalized(pid) == (CHOOSE p \in parseID(pid) : p.err = Nil).project

TagOps == {"GetRelease", "UpdateRelease", "DeleteRelease"}

(* C1: an operation whose project reference the parser rejects returns    *)
(* that error with a nil result and nil response metadata, and calls      *)
(* neither client.NewRequest nor client.Do.                                *)
C1_RejectedProjectFailsLocally ==
    \A i \in Slots :
        (pc[i] # "idle" /\ (Rejected(args[i].pid) \/ ret[i].err \in ParseErrs)) =>
            /\ pc[i] = "done"
            /\ ret[i].returned
            /\ ret[i].err \in {p.err : p \in parseID(args[i].pid)} \ {Nil}
            /\ ret[i].result = NilResult
            /\ ret[i].resp = Nil
            /\ nNewRequest[i] = 0 /\ ~handed[i].called
            /\ nDo[i] = 0 /\ ~built[i].ok /\ ~wire[i].received

C1_Witness ==
    \E i \in Slots :
        /\ pc[i] = "done" /\ args[i].op = "UpdateRelease" /\ args[i].pid = StructPid
        /\ ret[i].err = "invalid ID type" /\ nNewRequest[i] = 0 /\ nDo[i] = 0

(* C2: an invocation calls client.Do at most once, exactly once when the  *)
(* project reference parsed and the request was built, and a failed round *)
(* trip is not tried again.                                                *)
C2_DoAtMostOnce ==
    \A i \in Slots :
        /\ nDo[i] <= 1 /\ nNewRequest[i] <= 1
        /\ pc[i] # "idle" => (nDo[i] = 1 <=> built[i].ok)
        /\ (pc[i] # "idle" /\ handed[i].called /\ ret[i].err # NewRequestErr) => nDo[i] = 1
        /\ wire[i].received => (pc[i] = "done" /\ nDo[i] = 1)

C2_Witness ==
    \E i \in Slots :
        /\ pc[i] = "done" /\ wire[i].received /\ wire[i].err # Nil /\ nDo[i] = 1
        /\ args[i].op = "CreateRelease"

WireVerb(op) ==
    CASE op = "ListReleases" -> "GET"
      [] op = "GetRelease" -> "GET"
      [] op = "CreateRelease" -> "POST"
      [] op = "UpdateRelease" -> "PUT"
      [] op = "DeleteRelease" -> "DELETE"

WirePayload(op) ==
    CASE op = "ListReleases" -> "ListReleasesOptions"
      [] op = "CreateRelease" -> "CreateReleaseOptions"
      [] op = "UpdateRelease" -> "UpdateReleaseOptions"
      [] OTHER -> Nil

(* position of the releases literal in a path built by an operation *)
ReleasesAt(u) == CHOOSE k \in 1..Len(u) : u[k] \in {"/releases", "/releases/"}

ProjectSegment(u) == SubSeq(u, 2, ReleasesAt(u) - 1)

TagSegment(u) == SubSeq(u, ReleasesAt(u) + 1, Len(u))

(* C3: the request handed to client.NewRequest has the verb and the path  *)
(* of the wire table: projects/{p}/releases for ListReleases (GET) and    *)
(* CreateRelease (POST), projects/{p}/releases/{t} for GetRelease (GET),  *)
(* UpdateRelease (PUT) and DeleteRelease (DELETE), the project filling    *)
(* exactly one segment; List, Create and Update pass their options, Get   *)
(* and Delete pass nil.                                                    *)
C3_WireTable ==
    \A i \in Slots :
        handed[i].called =>
            LET a == args[i]
                h == handed[i]
                k == ReleasesAt(h.u)
            IN  /\ h.method = WireVerb(a.op)
                /\ h.u[1] = "projects/"
                /\ \E j \in 2..Len(h.u) : h.u[j] \in {"/releases", "/releases/"}
                /\ h.u[k] = (IF a.op \in TagOps THEN "/releases/" ELSE "/releases")
                /\ \A j \in 2..(k - 1) : h.u[j] \notin {"/", "projects/", "/releases", "/releases/"}
                /\ (Range(Normalized(a.pid)) \subseteq Unreserved
                        => ProjectSegment(h.u) = Normalized(a.pid))
                /\ TagSegment(h.u) = (IF a.op \in TagOps THEN a.tag ELSE <<>>)
                /\ h.opt.kind = WirePayload(a.op)
                /\ h.opt.val = (IF WirePayload(a.op) = Nil THEN NoOpts ELSE a.opt)

C3_Witness ==
    \E i \in Slots :
        /\ handed[i].called /\ args[i].op = "UpdateRelease"
        /\ args[i].pid = IntPid(42) /\ args[i].tag = <<"v", "/">>
        /\ handed[i].method = "PUT"
        /\ handed[i].u = <<"projects/", "4", "2", "/releases/", "v", "/">>

HasKey(body, k) ==
    \E j \in 1..(Len(body) - 3) :
        body[j] = Q /\ body[j + 1] = k /\ body[j + 2] = Q /\ body[j + 3] = ":"

CreateBuilt(i) == args[i].op = "CreateRelease" /\ built[i].ok

(* C4 as stated: the body of CreateRelease contains the text assets if    *)
(* and only if Assets is non-nil.                                          *)
C4_AssetsTextIffAssets ==
    \A i \in Slots :
        CreateBuilt(i) =>
            (Contains(built[i].body, "assets") <=> ~args[i].opt.Assets.isNil)

(* C4, amended: the body of CreateRelease has the key assets if and only  *)
(* if Assets is non-nil (with Assets nil the key is absent, not null or   *)
(* empty), and with Assets nil the text assets occurs in the body only as *)
(* the value of one of the caller's string fields.                         *)
C4_AssetsKeyIffAssets ==
    \A i \in Slots :
        CreateBuilt(i) =>
            LET o == args[i].opt
                body == built[i].body
            IN  /\ built[i].hasBody
                /\ HasKey(body, "assets") <=> ~o.Assets.isNil
                /\ ~o.Assets.isNil => Contains(body, "assets")
                /\ (o.Assets.isNil /\ Contains(body, "assets"))
                       => "assets" \in {o.Name, o.TagName, o.Description, o.Ref}
                /\ (o.Assets.isNil /\ "assets" \notin {o.Name, o.TagName, o.Description, o.Ref})
                       => ~Contains(body, "assets")

C4_Witness ==
    \E i \in Slots :
        /\ CreateBuilt(i) /\ ~args[i].opt.Assets.isNil
        /\ Len(args[i].opt.Assets.Links) = 1
        /\ HasKey(built[i].body, "assets")

(* C5: when client.Do returns an error together with response metadata    *)
(* (nil or not), the operation returns that error and that metadata.       *)
C5_ErrorAndResponsePassThrough ==
    \A i \in Slots :
        (wire[i].received /\ wire[i].err # Nil) =>
            /\ ret[i].returned
            /\ ret[i].err = wire[i].err
            /\ ret[i].resp = wire[i].resp

C5_Witness ==
    \E i \in Slots :
        /\ pc[i] = "done" /\ args[i].op = "DeleteRelease"
        /\ wire[i].err = "404 Not Found" /\ wire[i].resp = "response B"
        /\ ret[i].resp = "response B"

(* decoding of a percent-encoded URL path segment *)
Unhex(a, b) == CHOOSE c \in {"/", "+", "%", " ", "?"} : Hex(c) = <<a, b>>

RECURSIVE PathUnescape(_)
PathUnescape(s) ==
    IF s = <<>> THEN <<>>
    ELSE IF Head(s) = "%" /\ Len(s) >= 3
         THEN <<Unhex(s[2], s[3])>> \o PathUnescape(SubSeq(s, 4, Len(s)))
         ELSE <<Head(s)>> \o PathUnescape(Tail(s))

(* C6: in the path of every request built, the project segment is a       *)
(* percent-encoding of the normalized project reference as a URL path     *)
(* segment (it holds no raw separator or space and decodes, as a path     *)
(* segment, to the reference), and the tag segment is the caller's tag as *)
(* given.                                                                  *)
C6_ProjectSegmentPathEncoded ==
    \A i \in Slots :
        built[i].ok =>
            /\ \A j \in 1..Len(ProjectSegment(handed[i].u)) :
                   ProjectSegment(handed[i].u)[j] \notin {"/", " ", "?"}
            /\ PathUnescape(ProjectSegment(handed[i].u)) = Normalized(args[i].pid)
            /\ args[i].op \in TagOps => TagSegment(handed[i].u) = args[i].tag

(* C7: a successful ListReleases returns one Release per element of the   *)
(* server's array, in the order of the array.                              *)
C7_ListKeepsServerOrder ==
    \A i \in Slots :
        (pc[i] = "done" /\ args[i].op = "ListReleases" /\ wire[i].received
            /\ ret[i].err = Nil) =>
            /\ ~ret[i].result.isNil
            /\ Len(ret[i].result.rels) = Len(wire[i].items)
            /\ \A k \in 1..Len(wire[i].items) :
                   /\ ret[i].result.rels[k].TagName = wire[i].items[k].tag_name
                   /\ ret[i].result.rels[k].Name = wire[i].items[k].name

C7_Witness ==
    \E i \in Slots :
        /\ pc[i] = "done" /\ args[i].op = "ListReleases" /\ ret[i].err = Nil
        /\ Len(wire[i].items) = 2
        /\ wire[i].items[1].tag_name = "v0.2" /\ wire[i].items[2].tag_name = "v0.1"
        /\ Len(ret[i].result.rels) = 2
        /\ ret[i].result.rels[1].TagName = "v0.2"

(* what an operation hands to client.NewRequest, from its own arguments *)
OwnRequest(a, project) ==
    CASE a.op = "ListReleases" -> ListReleasesRequest(project, a.opt)
      [] a.op = "GetRelease" -> GetReleaseRequest(project, a.tag)
      [] a.op = "CreateRelease" -> CreateReleaseRequest(project, a.opt)
      [] a.op = "UpdateRelease" -> UpdateReleaseRequest(project, a.tag, a.opt)
      [] a.op = "DeleteRelease" -> DeleteReleaseRequest(project, a.tag)

(* what an operation returns for the answer of its own round trip *)
OwnReturn(w) ==
    [returned |-> TRUE, result |-> IF w.err # Nil THEN NilResult ELSE w.r,
     resp |-> w.resp, err |-> w.err]

(* the invocation in slot i is in a state it reaches when run alone with   *)
(* parser verdict p and request-builder verdict nrOk                       *)
AsAlone(i, p, nrOk) ==
    IF p.err # Nil
    THEN /\ pc[i] = "done" /\ handed[i] = NotHanded /\ built[i] = NotBuilt
         /\ wire[i] = NoWire
         /\ ret[i] = [returned |-> TRUE, result |-> NilResult, resp |-> Nil, err |-> p.err]
    ELSE /\ handed[i] = OwnRequest(args[i], p.project)
         /\ IF ~nrOk
            THEN /\ pc[i] = "done" /\ built[i] = NotBuilt /\ wire[i] = NoWire
                 /\ ret[i] = [returned |-> TRUE, result |-> NilResult, resp |-> Nil,
                              err |-> NewRequestErr]
            ELSE /\ built[i] = NewRequest(OwnRequest(args[i], p.project))
                 /\ pc[i] = "inflight" => (wire[i] = NoWire /\ ret[i] = NoRet)
                 /\ pc[i] = "done" =>
                        /\ wire[i].received
                        /\ ret[i] = OwnReturn(wire[i])

(* C8: under any interleaving of concurrent invocations, each invocation  *)
(* builds its request from its own arguments alone and returns the        *)
(* result, metadata and error of its own round trip, as it does when run  *)
(* alone; an idle slot holds nothing of an earlier call.                   *)
C8_InvocationsIsolated ==
    \A i \in Slots :
        IF pc[i] = "idle"
        THEN /\ args[i] = NoArgs /\ handed[i] = NotHanded /\ built[i] = NotBuilt
             /\ wire[i] = NoWire /\ ret[i] = NoRet
        ELSE \E p \in parseID(args[i].pid), nrOk \in BOOLEAN : AsAlone(i, p, nrOk)

C8_Witness ==
    \E i, j \in Slots :
        /\ i # j
        /\ pc[i] = "done" /\ args[i].op = "GetRelease" /\ wire[i].received
        /\ pc[j] = "inflight" /\ args[j].op = "UpdateRelease"
        /\ args[i].tag # args[j].tag /\ args[i].pid # args[j].pid
        /\ handed[i].u = <<"projects/", "1", "/releases/", "v">>

(* the tokens between the brackets of the links array of a body *)
LinksTokens(body) ==
    SubSeq(body, (CHOOSE k \in 1..Len(body) : body[k] = "[") + 1,
                 (CHOOSE k \in 1..Len(body) : body[k] = "]") - 1)

LinkObject(l) ==
    <<"{", Q, "name", Q, ":", Q, l.Name, Q, ",", Q, "ref", Q, ":", Q, l.URL, Q, "}">>

RECURSIVE LinkObjects(_)
LinkObjects(ls) ==
    IF ls = <<>> THEN <<>>
    ELSE IF Len(ls) = 1 THEN LinkObject(ls[1])
    ELSE LinkObject(ls[1]) \o <<",">> \o LinkObjects(Tail(ls))

(* C9: every asset link of a CreateRelease body is an object with the     *)
(* link's name under the key name and its URL under the key ref, never    *)
(* under url, for every list of links, in the order given.                 *)
C9_AssetLinkKeys ==
    \A i \in Slots :
        (CreateBuilt(i) /\ ~args[i].opt.Assets.isNil /\ ~args[i].opt.Assets.linksNil) =>
            /\ Contains(built[i].body, "[") /\ Contains(built[i].body, "]")
            /\ LinksTokens(built[i].body) = LinkObjects(args[i].opt.Assets.Links)
            /\ ~HasKey(built[i].body, "url")

C9_Witness ==
    \E i \in Slots :
        /\ CreateBuilt(i) /\ ~args[i].opt.Assets.isNil
        /\ Len(args[i].opt.Assets.Links) = 2
        /\ args[i].opt.Assets.Links[1].URL = "url"
        /\ args[i].opt.Assets.Links[2].URL = "sldkfj"
        /\ HasKey(built[i].body, "ref")

(* C10: an operation that returns an error returns a nil result, also     *)
(* when client.Do left a partly decoded value in r; an operation that     *)
(* returns no error returns the value client.Do decoded.                   *)
C10_ResultXorError ==
    \A i \in Slots :
        ret[i].returned =>
            /\ ret[i].err # Nil => ret[i].result = NilResult
            /\ ret[i].err = Nil => (wire[i].received /\ ret[i].result = wire[i].r)

C10_Witness ==
    \E i \in Slots :
        /\ pc[i] = "done" /\ args[i].op = "GetRelease"
        /\ wire[i].err # Nil /\ wire[i].r # NilResult
        /\ ret[i].result = NilResult

====
